---- MODULE Spec2Model ----
(***************************************************************************)
(* A model of pymorphy2's analysis engine (pymorphy2/analyzer.py):         *)
(* the paradigm store and the Dictionary built on it, the Parse records,   *)
(* and the MorphAnalyzer pipeline that tries the Dictionary first and then *)
(* the heuristic units in their configured order.                          *)
(*                                                                         *)
(* Strings are sequences of one-letter strings; "e" stands for the         *)
(* Cyrillic letter ie and "yo" for the letter io, the pair the             *)
(* dictionary's replaces table ({ie: io}) is compiled from.  Python        *)
(* containers are 0-based: At(s, k) reads s[k].                            *)
(***************************************************************************)
EXTENDS Integers, Sequences, FiniteSets, TLC

VARIABLES units, pc, op, word, res, i, invoked, outs, held, ret

vars == <<units, pc, op, word, res, i, invoked, outs, held, ret>>

\* ---------------------------------------------------------------- bounds

\* The longest unit list an analyzer is configured with.
MaxUnits == 3

\* The most results one heuristic unit returns for one query.
MaxOut == 1

\* ------------------------------------------------------- Python helpers

At(s, k) == s[k + 1]

Min(a, b) == IF a < b THEN a ELSE b

Max(a, b) == IF a > b THEN a ELSE b

\* s[start:] for start >= 0.
SliceFrom(s, start) == SubSeq(s, Min(start, Len(s)) + 1, Len(s))

\* s[start:-n] for start >= 0 and n > 0: the stop index counts from the
\* right end and is clipped at 0; an empty range gives the empty string.
SliceFromTo(s, start, n) == SubSeq(s, Min(start, Len(s)) + 1, Max(Len(s) - n, 0))

\* ------------------------------------- the loaded dictionary (immutable)

\* self.suffixes, by suffix id.
suffixes == << <<>>, <<"a">>, <<"i">>, <<"y">>, <<"e">> >>

\* self.paradigm_prefixes, by prefix id.
paradigm_prefixes == << <<>>, <<"p", "o">> >>

\* self.gramtab, by tag id: a tag is known by its set of grammemes.
gramtab ==
  << [grammemes |-> {"NOUN", "sing", "nomn"}],
     [grammemes |-> {"NOUN", "sing", "gent"}],
     [grammemes |-> {"NOUN", "plur", "nomn"}],
     [grammemes |-> {"ADJF"}],
     [grammemes |-> {"COMP"}] >>

\* self.paradigms, by paradigm id: N suffix ids, then N tag ids, then N
\* prefix ids.  Paradigm 0 has the slots -a, -i, -i, -y (the last an
\* alternative form with the tag of slot 1); paradigm 1 has a bare slot 0
\* and the slot po-...-e.
paradigms ==
  << <<1, 2, 2, 3,   0, 1, 2, 1,   0, 0, 0, 0>>,
     <<0, 4,   3, 4,   0, 1>> >>

ParaIds == 0 .. (Len(paradigms) - 1)

Slots(para_id) == 0 .. ((Len(At(paradigms, para_id)) \div 3) - 1)

\* self.words: the keys of the lexicon, each with its (para_id, idx)
\* values.  The lexicon holds the lexeme of stem yo-l-k, the commonly used
\* spelling e-l-k-a of its normal form, and the lexeme of stem k-a.
words ==
  << [key |-> <<"e", "l", "k", "a">>,  values |-> << <<0, 0>> >>],
     [key |-> <<"yo", "l", "k", "a">>, values |-> << <<0, 0>> >>],
     [key |-> <<"yo", "l", "k", "i">>, values |-> << <<0, 1>>, <<0, 2>> >>],
     [key |-> <<"yo", "l", "k", "y">>, values |-> << <<0, 3>> >>],
     [key |-> <<"k", "a">>,            values |-> << <<1, 0>> >>],
     [key |-> <<"p", "o", "k", "a", "e">>, values |-> << <<1, 1>> >>] >>

Keys == {words[k].key : k \in 1 .. Len(words)}

ValuesOf(key) == words[CHOOSE k \in 1 .. Len(words) : words[k].key = key].values

\* A word with the letter at position p replaced as self.ee replaces it.
ReplaceAt(w, p) == [w EXCEPT ![p] = "yo"]

\* self.words.similar_keys(word, self.ee): the stored keys reached from the
\* word by replacing any of its letters "e" by "yo"; the exact key, when
\* stored, comes first.
RECURSIVE SimilarFrom(_, _)
RECURSIVE SimilarLoop(_, _)
SimilarLoop(w, p) ==
  IF p > Len(w) THEN <<>>
  ELSE (IF w[p] = "e" THEN SimilarFrom(ReplaceAt(w, p), p + 1) ELSE <<>>)
       \o SimilarLoop(w, p + 1)

SimilarFrom(w, p) == (IF w \in Keys THEN <<w>> ELSE <<>>) \o SimilarLoop(w, p)

similar_keys(w) == SimilarFrom(w, 1)

\* self.words.similar_items(word, self.ee): (fixed_word, parses) pairs.
similar_items(w) ==
  [k \in 1 .. Len(similar_keys(w)) |->
     [fixed_word |-> similar_keys(w)[k], parses |-> ValuesOf(similar_keys(w)[k])]]

\* self.words.similar_item_values(word, self.ee): the parses alone.
similar_item_values(w) ==
  [k \in 1 .. Len(similar_keys(w)) |-> ValuesOf(similar_keys(w)[k])]

\* ------------------------------------------ Dictionary: paradigm access

build_tag_info(para_id, idx) ==
  LET paradigm == At(paradigms, para_id)
      tag_info_offset == Len(paradigm) \div 3
      tag_id == At(paradigm, tag_info_offset + idx)
  IN  At(gramtab, tag_id)

build_paradigm_info(para_id) ==
  LET paradigm == At(paradigms, para_id)
      paradigm_len == Len(paradigm) \div 3
  IN  [k \in 1 .. paradigm_len |->
         LET idx == k - 1
             prefix_id == At(paradigm, paradigm_len * 2 + idx)
             suffix_id == At(paradigm, idx)
         IN  [prefix |-> At(paradigm_prefixes, prefix_id),
              tag |-> build_tag_info(para_id, idx),
              suffix |-> At(suffixes, suffix_id)]]

\* A stem operation that slices fixed_word[len(prefix):-len(suffix)] for
\* every suffix, the empty one included.
build_stem_no_empty_case(paradigm, idx, fixed_word) ==
  LET paradigm_len == Len(paradigm) \div 3
      prefix == At(paradigm_prefixes, At(paradigm, paradigm_len * 2 + idx))
      suffix == At(suffixes, At(paradigm, idx))
  IN  SubSeq(fixed_word, Min(Len(prefix), Len(fixed_word)) + 1,
             IF Len(suffix) = 0 THEN 0 ELSE Max(Len(fixed_word) - Len(suffix), 0))

build_stem(paradigm, idx, fixed_word) ==
  LET paradigm_len == Len(paradigm) \div 3
      prefix_id == At(paradigm, paradigm_len * 2 + idx)
      prefix == At(paradigm_prefixes, prefix_id)
      suffix_id == At(paradigm, idx)
      suffix == At(suffixes, suffix_id)
  IN  IF suffix # <<>>
      THEN SliceFromTo(fixed_word, Len(prefix), Len(suffix))
      ELSE SliceFrom(fixed_word, Len(prefix))

build_normal_form(para_id, idx, fixed_word) ==
  IF idx = 0 THEN fixed_word
  ELSE LET paradigm == At(paradigms, para_id)
           paradigm_len == Len(paradigm) \div 3
           stem == build_stem(paradigm, idx, fixed_word)
           normal_prefix_id == At(paradigm, paradigm_len * 2 + 0)
           normal_suffix_id == At(paradigm, 0)
           normal_prefix == At(paradigm_prefixes, normal_prefix_id)
           normal_suffix == At(suffixes, normal_suffix_id)
       IN  normal_prefix \o stem \o normal_suffix

\* ------------------------------------------------------- Parse records

\* The 7 fields of the Parse namedtuple.  A step of `methods` names the
\* component that produced it: unit 0 is the Dictionary, unit k >= 1 is
\* the k-th configured heuristic unit.  estimate is kept in tenths (10 is
\* the Dictionary's 1.0).
MakeParse(w, tag, normal_form, para_id, idx, estimate, methods) ==
  [word |-> w, tag |-> tag, normal_form |-> normal_form, para_id |-> para_id,
   idx |-> idx, estimate |-> estimate, methods |-> methods]

\* What a call gives back: the exception it raised ("" for none) and the
\* records it returned.
Returned(val) == [raised |-> "", val |-> val]

Raised(exc) == [raised |-> exc, val |-> <<>>]

\* ------------------------------------- Dictionary: parsing interface

\* The (fixed_word, para_id, idx) triples in the order the two nested
\* loops of Dictionary.parse visit them.
RECURSIVE ParseItems(_, _)
ParseItems(para_data, k) ==
  IF k > Len(para_data) THEN <<>>
  ELSE [j \in 1 .. Len(para_data[k].parses) |->
          [fixed_word |-> para_data[k].fixed_word,
           para_id |-> para_data[k].parses[j][1],
           idx |-> para_data[k].parses[j][2]]]
       \o ParseItems(para_data, k + 1)

\* The loop body of Dictionary.parse from item k on; para_normal_forms is
\* the call's memo of normal forms, keyed by para_id.
RECURSIVE ParseLoop(_, _, _)
ParseLoop(items, k, para_normal_forms) ==
  IF k > Len(items) THEN <<>>
  ELSE LET it == items[k]
           known == it.para_id \in DOMAIN para_normal_forms
           normal_form ==
             IF ~known THEN build_normal_form(it.para_id, it.idx, it.fixed_word)
             ELSE para_normal_forms[it.para_id]
           memo == IF ~known THEN para_normal_forms @@ (it.para_id :> normal_form)
                   ELSE para_normal_forms
           tag == build_tag_info(it.para_id, it.idx)
           parse == MakeParse(it.fixed_word, tag, normal_form, it.para_id, it.idx,
                              10, <<[unit |-> 0, word |-> it.fixed_word]>>)
       IN  <<parse>> \o ParseLoop(items, k + 1, memo)

Dictionary_parse(w) == ParseLoop(ParseItems(similar_items(w), 1), 1, <<>>)

RECURSIVE TagLoop(_, _)
TagLoop(para_data, k) ==
  IF k > Len(para_data) THEN <<>>
  ELSE [j \in 1 .. Len(para_data[k]) |->
          LET para_id == para_data[k][j][1]
              idx == para_data[k][j][2]
              paradigm == At(paradigms, para_id)
              paradigm_len == Len(paradigm) \div 3
              tag_id == At(paradigm, paradigm_len + idx)
          IN  At(gramtab, tag_id)]
       \o TagLoop(para_data, k + 1)

Dictionary_tag(w) == TagLoop(similar_item_values(w), 1)

\* A lexeme expansion that leaves the slot index of the given form in
\* every record.
Dictionary_get_lexeme_keeps_idx(form, methods) ==
  IF ~(Len(methods) = 0 \/ methods[1].unit = 0) THEN Raised("AssertionError")
  ELSE LET stem == build_stem(At(paradigms, form.para_id), form.idx, form.word)
           info == build_paradigm_info(form.para_id)
       IN  Returned([k \in 1 .. Len(info) |->
                       MakeParse(info[k].prefix \o stem \o info[k].suffix,
                                 info[k].tag, form.normal_form, form.para_id,
                                 form.idx, form.estimate, form.methods)])

Dictionary_get_lexeme(form, methods) ==
  IF ~(Len(methods) = 0 \/ methods[1].unit = 0) THEN Raised("AssertionError")
  ELSE LET stem == build_stem(At(paradigms, form.para_id), form.idx, form.word)
           info == build_paradigm_info(form.para_id)
       IN  Returned([k \in 1 .. Len(info) |->
                       LET index == k - 1
                           w == info[k].prefix \o stem \o info[k].suffix
                       IN  MakeParse(w, info[k].tag, form.normal_form,
                                     form.para_id, index, form.estimate,
                                     form.methods)])

\* A normalization that leaves the slot index of the given form.
Dictionary_normalized_keeps_idx(form) ==
  IF form.idx = 0 THEN Returned(<<form>>)
  ELSE Returned(<<MakeParse(form.normal_form, build_tag_info(form.para_id, 0),
                            form.normal_form, form.para_id, form.idx,
                            form.estimate, form.methods)>>)

Dictionary_normalized(form) ==
  IF form.idx = 0 THEN Returned(<<form>>)
  ELSE LET tag == build_tag_info(form.para_id, 0)
       IN  Returned(<<MakeParse(form.normal_form, tag, form.normal_form,
                                form.para_id, 0, form.estimate, form.methods)>>)

\* ---------------------------------------------------------- Tag table

\* The category a grammeme belongs to.
Category(g) ==
  CASE g \in {"sing", "plur"} -> "number"
    [] g \in {"nomn", "gent"} -> "case"
    [] OTHER -> "POS"

\* Tag.updated_grammemes(required): the tag's grammemes with every
\* grammeme of `required` applied as an override of its category.
updated_grammemes(tag, required) ==
  {g \in tag.grammemes : \A r \in required : Category(r) # Category(g)} \cup required

\* ------------------------------------------- MorphAnalyzer: inflection

\* self._result_type(*p): the Parse built from the 7 fields of p.
result_type(p) ==
  MakeParse(p.word, p.tag, p.normal_form, p.para_id, p.idx, p.estimate, p.methods)

\* MorphAnalyzer.get_lexeme for a form whose last derivation step names
\* the Dictionary (a heuristic unit reconstructs its own forms).
MorphAnalyzer_get_lexeme(form) ==
  LET methods == form.methods
  IN  IF Len(methods) = 0 THEN Raised("IndexError")
      ELSE LET result == Dictionary_get_lexeme(form, methods)
           IN  IF result.raised # "" THEN result
               ELSE Returned([k \in 1 .. Len(result.val) |-> result_type(result.val[k])])

\* The key of the selection in _inflect.
similarity(grammemes, form) == Cardinality(grammemes \cap form.tag.grammemes)

\* max(items, key=similarity) from item k on, `best` being the largest so
\* far: a later item replaces it only when its key is strictly larger.
RECURSIVE MaxFrom(_, _, _, _)
MaxFrom(items, k, best, grammemes) ==
  IF k > Len(items) THEN best
  ELSE MaxFrom(items, k + 1,
               IF similarity(grammemes, items[k]) > similarity(grammemes, best)
               THEN items[k] ELSE best,
               grammemes)

\* A selection in which a later item replaces the best so far when its key
\* is at least as large.
RECURSIVE MaxFromLast(_, _, _, _)
MaxFromLast(items, k, best, grammemes) ==
  IF k > Len(items) THEN best
  ELSE MaxFromLast(items, k + 1,
                   IF similarity(grammemes, items[k]) >= similarity(grammemes, best)
                   THEN items[k] ELSE best,
                   grammemes)

nlargest_last(possible_results, grammemes) ==
  IF possible_results = <<>> THEN <<>>
  ELSE <<MaxFromLast(possible_results, 2, possible_results[1], grammemes)>>

\* heapq.nlargest(1, possible_results, key=similarity).
nlargest(possible_results, grammemes) ==
  IF possible_results = <<>> THEN <<>>
  ELSE <<MaxFrom(possible_results, 2, possible_results[1], grammemes)>>

\* An inflection that selects among all the forms of the lexeme.
inflect_unfiltered(form, required_grammemes) ==
  LET grammemes == updated_grammemes(form.tag, required_grammemes)
      lexeme == MorphAnalyzer_get_lexeme(form)
  IN  IF lexeme.raised # "" THEN lexeme
      ELSE Returned(nlargest(lexeme.val, grammemes))

\* MorphAnalyzer._inflect.
_inflect(form, required_grammemes) ==
  LET grammemes == updated_grammemes(form.tag, required_grammemes)
      lexeme == MorphAnalyzer_get_lexeme(form)
      Passes(f) == required_grammemes \subseteq f.tag.grammemes
  IN  IF lexeme.raised # "" THEN lexeme
      ELSE LET possible_results == SelectSeq(lexeme.val, Passes)
           IN  Returned(nlargest(possible_results, grammemes))

\* Parse.inflect: the first of _inflect's results, or none (the empty
\* sequence).
Parse_inflect(form, required_grammemes) ==
  LET r == _inflect(form, required_grammemes)
  IN  IF r.raised # "" THEN r
      ELSE IF r.val = <<>> THEN Returned(<<>>) ELSE Returned(<<r.val[1]>>)

\* Parse.normalized, for a form whose last derivation step names the
\* Dictionary.
Parse_normalized(form) ==
  LET r == Dictionary_normalized(form)
  IN  Returned(<<result_type(r.val[1])>>)

\* ------------------------------------------------- heuristic units

\* The words a caller asks about: spellings the lexicon knows exactly or
\* through the e/yo replacement, and words it does not know.
QueryWords ==
  { <<"e", "l", "k", "a">>, <<"yo", "l", "k", "a">>, <<"e", "l", "k", "i">>,
    <<"k", "a">>, <<"p", "o", "k", "a", "e">>,
    <<"k">>, <<"e", "l">> }

\* The j-th record heuristic unit k returns for a word it analyzes with
\* paradigm para_id: its derivation chain names the unit, its estimate is
\* below the Dictionary's.
UnitParse(k, w, para_id, j) ==
  LET idx == j % Cardinality(Slots(para_id))
  IN  MakeParse(w, build_tag_info(para_id, idx), w, para_id, idx, 5,
                <<[unit |-> k, word |-> w]>>)

\* What unit.parse(word, seen) may return: nothing, or up to MaxOut records.
UnitParses(k, w) ==
  {<<>>} \cup {[j \in 1 .. n |-> UnitParse(k, w, para_id, j)] :
                 n \in 1 .. MaxOut, para_id \in ParaIds}

\* What unit.tag(word, seen) may return: the tags of such records.
UnitTags(k, w) == {[j \in 1 .. Len(out) |-> out[j].tag] : out \in UnitParses(k, w)}

\* -------------------------------------- MorphAnalyzer: parse and tag

\* A pipeline that consults the units whatever the dictionary returned.
always_run_units(r) == TRUE

\* `if not res:` after the dictionary lookup.
run_units(r) == r = <<>>

\* A loop that never leaves early.
never_break(r, terminal) == FALSE

\* A loop that leaves after a terminal unit whatever the accumulator holds.
break_on_terminal(r, terminal) == terminal

\* `if res and unit.terminal: break`, res being the accumulator.
break_after_unit(r, terminal) == r # <<>> /\ terminal

NoRet ==
  [call |-> "", form |-> <<>>, required |-> {}, methods |-> <<>>, para_id |-> 0,
   idx |-> 0, w |-> <<>>, raised |-> "", val |-> <<>>, stem |-> <<>>]

Init ==
  /\ units \in UNION {[1 .. n -> BOOLEAN] : n \in 0 .. MaxUnits}
  /\ pc = "idle"
  /\ op = ""
  /\ word = <<>>
  /\ res = <<>>
  /\ i = 0
  /\ invoked = <<>>
  /\ outs = <<>>
  /\ held = <<>>
  /\ ret = NoRet

\* A caller enters MorphAnalyzer.parse(word) or MorphAnalyzer.tag(word).
Call(w, o) ==
  /\ pc = "idle"
  /\ pc' = "DictionaryLookup"
  /\ op' = o
  /\ word' = w
  /\ res' = <<>>
  /\ i' = 0
  /\ invoked' = <<>>
  /\ outs' = <<>>
  /\ held' = <<>>
  /\ ret' = NoRet
  /\ UNCHANGED units

\* res = self.dictionary.parse(word) (or .tag(word)), and `if not res:`.
DictionaryLookup ==
  /\ pc = "DictionaryLookup"
  /\ res' = IF op = "parse" THEN Dictionary_parse(word) ELSE Dictionary_tag(word)
  /\ pc' = IF run_units(res') /\ Len(units) > 0 THEN "HeuristicUnit" ELSE "Done"
  /\ UNCHANGED <<units, op, word, i, invoked, outs, held, ret>>

\* One turn of `for unit in self._units:` with unit = self._units[i]: the
\* unit's results extend res, then `if res and unit.terminal: break`.  What
\* the unit returns is its own affair (the `seen` set it shares with the
\* other units only lets it drop results), so any of its outputs may come.
HeuristicUnit ==
  /\ pc = "HeuristicUnit"
  /\ \E out \in (IF op = "parse" THEN UnitParses(i + 1, word) ELSE UnitTags(i + 1, word)) :
       /\ res' = res \o out
       /\ invoked' = Append(invoked, i)
       /\ outs' = Append(outs, Len(out))
  /\ IF break_after_unit(res', At(units, i)) \/ i + 1 >= Len(units)
     THEN pc' = "Done" /\ i' = i
     ELSE pc' = "HeuristicUnit" /\ i' = i + 1
  /\ UNCHANGED <<units, op, word, held, ret>>

\* parse returns [self._result_type(*p) for p in res], tag returns res; the
\* caller keeps one of the records parse returned.
Return ==
  /\ pc = "Done"
  /\ pc' = "idle"
  /\ ret' = [NoRet EXCEPT !.call = op, !.w = word,
                          !.val = IF op = "parse"
                                  THEN [k \in 1 .. Len(res) |-> result_type(res[k])]
                                  ELSE res]
  /\ IF op = "parse" /\ res # <<>>
     THEN \E k \in 1 .. Len(res) : held' = <<result_type(res[k])>>
     ELSE held' = <<>>
  /\ op' = ""
  /\ word' = <<>>
  /\ res' = <<>>
  /\ i' = 0
  /\ invoked' = <<>>
  /\ outs' = <<>>
  /\ UNCHANGED units

\* ------------------------------------------- operations on a record

\* The grammeme sets a caller asks inflect for.
RequiredSets == SUBSET {"sing", "plur", "nomn", "gent"}

\* The component the last derivation step of a record names.
Owner(form) == form.methods[Len(form.methods)].unit

quiet == <<units, pc, op, word, res, i, invoked, outs>>

\* Parse.lexeme of the held record; the caller keeps one of the forms.
Lexeme ==
  /\ pc = "idle" /\ held # <<>> /\ Owner(held[1]) = 0
  /\ LET r == MorphAnalyzer_get_lexeme(held[1])
     IN  /\ ret' = [NoRet EXCEPT !.call = "get_lexeme", !.form = held,
                                 !.raised = r.raised, !.val = r.val]
         /\ \E k \in 1 .. Len(r.val) : held' = <<r.val[k]>>
  /\ UNCHANGED quiet

\* Parse.normalized of the held record; the caller keeps the result.
Normalized ==
  /\ pc = "idle" /\ held # <<>> /\ Owner(held[1]) = 0
  /\ LET r == Parse_normalized(held[1])
     IN  /\ ret' = [NoRet EXCEPT !.call = "normalized", !.form = held,
                                 !.raised = r.raised, !.val = r.val]
         /\ held' = r.val
  /\ UNCHANGED quiet

\* Parse.inflect(required_grammemes) of the held record; the caller keeps
\* the inflected form when there is one.
Inflect(required_grammemes) ==
  /\ pc = "idle" /\ held # <<>> /\ Owner(held[1]) = 0
  /\ LET r == Parse_inflect(held[1], required_grammemes)
     IN  /\ ret' = [NoRet EXCEPT !.call = "inflect", !.form = held,
                                 !.required = required_grammemes,
                                 !.raised = r.raised, !.val = r.val]
         /\ held' = IF r.val = <<>> THEN held ELSE r.val
  /\ UNCHANGED quiet

\* Dictionary.get_lexeme(form, methods) called on the held record, whoever
\* produced it, with the record's chain or an empty one.
DictGetLexeme ==
  /\ pc = "idle" /\ held # <<>>
  /\ \E methods \in {held[1].methods, <<>>} :
       LET r == Dictionary_get_lexeme(held[1], methods)
       IN  ret' = [NoRet EXCEPT !.call = "Dictionary.get_lexeme", !.form = held,
                                !.methods = methods,
                                !.raised = r.raised, !.val = r.val]
  /\ UNCHANGED <<quiet, held>>

\* Dictionary.normalized(form) called on the held record, whoever produced
\* it.
DictNormalized ==
  /\ pc = "idle" /\ held # <<>>
  /\ LET r == Dictionary_normalized(held[1])
     IN  ret' = [NoRet EXCEPT !.call = "Dictionary.normalized", !.form = held,
                              !.raised = r.raised, !.val = r.val]
  /\ UNCHANGED <<quiet, held>>

\* Dictionary.build_stem(self.paradigms[para_id], idx, w) for a slot of a
\* paradigm and any word.  The body is table lookups and a slice, and a
\* Python slice clips its bounds to the string: nothing in it raises.
BuildStem(para_id, idx, w) ==
  /\ pc = "idle" /\ held = <<>>
  /\ ret' = [NoRet EXCEPT !.call = "build_stem", !.para_id = para_id, !.idx = idx,
                          !.w = w, !.stem = build_stem(At(paradigms, para_id), idx, w)]
  /\ UNCHANGED <<quiet, held>>

Next ==
  \/ \E w \in QueryWords, o \in {"parse", "tag"} : Call(w, o)
  \/ DictionaryLookup
  \/ HeuristicUnit
  \/ Return
  \/ Lexeme
  \/ Normalized
  \/ \E required_grammemes \in RequiredSets : Inflect(required_grammemes)
  \/ DictGetLexeme
  \/ DictNormalized
  \/ \E para_id \in ParaIds : \E idx \in Slots(para_id) : \E w \in QueryWords :
       BuildStem(para_id, idx, w)

Spec == Init /\ [][Next]_vars

\* ================================================================ claims

\* C1. When Dictionary.parse(word) is non-empty, MorphAnalyzer.parse(word)
\* invokes no unit and returns exactly the dictionary's records, in their
\* order; MorphAnalyzer.tag(word) invokes no unit when Dictionary.tag(word)
\* is non-empty and returns the dictionary's tags.
C1_ShortCircuit ==
  LET fromDict(o, w) == IF o = "parse" THEN Dictionary_parse(w) ELSE Dictionary_tag(w)
  IN  /\ (pc \in {"HeuristicUnit", "Done"} /\ fromDict(op, word) # <<>>)
           => (pc = "Done" /\ invoked = <<>> /\ res = fromDict(op, word))
      /\ (ret.call \in {"parse", "tag"} /\ fromDict(ret.call, ret.w) # <<>>)
           => ret.val = fromDict(ret.call, ret.w)

\* A parse of a word with two dictionary records has finished in an
\* analyzer that has units configured.
C1_Witness ==
  /\ pc = "Done" /\ op = "parse" /\ Len(units) > 0
  /\ Len(Dictionary_parse(word)) = 2 /\ Len(res) = 2

\* C2. In MorphAnalyzer.parse of a word the dictionary does not know, the
\* units are invoked in the configured order, each at most once, and once a
\* terminal unit has returned at least one result no later unit is invoked.
C2_TerminalStops ==
  (op = "parse" /\ pc \in {"HeuristicUnit", "Done"}) =>
     /\ Len(invoked) <= Len(units)
     /\ \A k \in 1 .. Len(invoked) : invoked[k] = k - 1
     /\ \A k \in 1 .. Len(invoked) :
          (At(units, invoked[k]) /\ outs[k] >= 1) => (k = Len(invoked) /\ pc = "Done")

\* With [U0 non-terminal, U1 terminal, U2], U0 returned nothing, U1
\* returned a result and the query ended with U2 never invoked.
C2_Witness ==
  /\ op = "parse" /\ pc = "Done" /\ Len(units) = 3
  /\ ~units[1] /\ units[2]
  /\ invoked = <<0, 1>> /\ outs = <<0, 1>>

C4_NormalFormOfOwnStem ==
  (pc = "Done" /\ op = "parse" /\ invoked = <<>>) =>
     \A k \in 1 .. Len(res) :
        LET r == res[k]
            slot0 == build_paradigm_info(r.para_id)[1]
            stem == build_stem(At(paradigms, r.para_id), r.idx, r.word)
        IN  r.normal_form = slot0.prefix \o stem \o slot0.suffix

\* C5. get_lexeme of a dictionary-sourced record r returns one record per
\* slot of r's paradigm, slots 0..N-1 in order, each of r's paradigm, and
\* stripping each record's own slot prefix and suffix from its word gives
\* r's stem.
C5_LexemeClosure ==
  (ret.call = "get_lexeme") =>
     LET r == ret.form[1]
         paradigm == At(paradigms, r.para_id)
         stem == build_stem(paradigm, r.idx, r.word)
     IN  /\ ret.raised = ""
         /\ Len(ret.val) = Len(paradigm) \div 3
         /\ \A k \in 1 .. Len(ret.val) :
              /\ ret.val[k].idx = k - 1
              /\ ret.val[k].para_id = r.para_id
              /\ build_stem(paradigm, ret.val[k].idx, ret.val[k].word) = stem

\* The lexeme of a record at slot 2 of a four-slot paradigm was expanded.
C5_Witness ==
  /\ ret.call = "get_lexeme" /\ ret.form[1].idx = 2 /\ Len(ret.val) = 4

\* C6. inflect(r, G) returns none or a record of r's lexeme whose tag's
\* grammemes include every grammeme of G, and returns none exactly when no
\* record of the lexeme passes that superset filter.
C6_InflectSuperset ==
  (ret.call = "inflect") =>
     LET lexeme == MorphAnalyzer_get_lexeme(ret.form[1]).val
         passing == {k \in 1 .. Len(lexeme) : ret.required \subseteq lexeme[k].tag.grammemes}
     IN  /\ ret.raised = ""
         /\ Len(ret.val) <= 1
         /\ (ret.val = <<>>) <=> (passing = {})
         /\ ret.val # <<>> =>
              /\ \E k \in 1 .. Len(lexeme) : lexeme[k] = ret.val[1]
              /\ ret.required \subseteq ret.val[1].tag.grammemes

\* A singular form was inflected to {plur}: a record at another slot came
\* back.
C6_Witness ==
  /\ ret.call = "inflect" /\ ret.required = {"plur"}
  /\ ret.val # <<>> /\ ret.val[1].idx # ret.form[1].idx

\* C7. normalized(r) is at slot 0 with r's normal_form, paradigm id,
\* estimate and derivation chain, and is r itself when r is at slot 0.
C7_Normalized ==
  (ret.call = "normalized") =>
     LET r == ret.form[1]
     IN  /\ ret.raised = "" /\ Len(ret.val) = 1
         /\ ret.val[1].idx = 0
         /\ ret.val[1].normal_form = r.normal_form
         /\ ret.val[1].para_id = r.para_id
         /\ ret.val[1].estimate = r.estimate
         /\ ret.val[1].methods = r.methods
         /\ r.idx = 0 => ret.val[1] = r

\* A record at a slot other than 0 was normalized to another word.
C7_Witness ==
  /\ ret.call = "normalized" /\ ret.form[1].idx # 0
  /\ ret.val[1].word # ret.form[1].word

\* C8. Dictionary.get_lexeme and Dictionary.normalized, asked about a record
\* whose derivation chain names only other components, fail with a
\* contract-violation error and return no record.
C8_ForeignChainFails ==
  (/\ ret.call \in {"Dictionary.get_lexeme", "Dictionary.normalized"}
   /\ ret.form[1].methods # <<>>
   /\ \A k \in 1 .. Len(ret.form[1].methods) : ret.form[1].methods[k].unit # 0
   /\ ret.call = "Dictionary.get_lexeme" => ret.methods = ret.form[1].methods)
  => (ret.raised = "AssertionError" /\ ret.val = <<>>)

\* C9. When a record of the lexeme passes the superset filter, inflect(r, G)
\* returns the passing record with the largest
\* |tag.grammemes /\ r.tag.updated_grammemes(G)| and, among those with that
\* score, the one at the smallest slot index.
C9_InflectBest ==
  (ret.call = "inflect") =>
     LET r == ret.form[1]
         grammemes == updated_grammemes(r.tag, ret.required)
         lexeme == MorphAnalyzer_get_lexeme(r).val
         passing == {k \in 1 .. Len(lexeme) : ret.required \subseteq lexeme[k].tag.grammemes}
         score(k) == Cardinality(lexeme[k].tag.grammemes \cap grammemes)
     IN  passing # {} =>
           \E k \in passing :
              /\ ret.val = <<lexeme[k]>>
              /\ lexeme[k].idx = k - 1
              /\ \A j \in passing :
                   score(j) < score(k) \/ (score(j) = score(k) /\ j >= k)

\* Inflecting to {gent} in paradigm 0, where slots 1 and 3 carry the same
\* tag and so the same score: the record at slot 1 came back.
C9_Witness ==
  /\ ret.call = "inflect" /\ ret.required = {"gent"}
  /\ ret.form[1].para_id = 0 /\ ret.val # <<>> /\ ret.val[1].idx = 1

\* C10, as claimed. build_stem raises whenever the word is shorter than
\* len(prefix) + len(suffix) or does not start with the slot's prefix and
\* end with its suffix.
C10_FailsOnMismatch ==
  (ret.call = "build_stem") =>
     LET slot == build_paradigm_info(ret.para_id)[ret.idx + 1]
         lp == Len(slot.prefix)
         ls == Len(slot.suffix)
         n == Len(ret.w)
         carries == /\ n >= lp + ls
                    /\ SubSeq(ret.w, 1, lp) = slot.prefix
                    /\ SubSeq(ret.w, n - ls + 1, n) = slot.suffix
     IN  ~carries => ret.raised # ""

\* C10, amended. For every slot of a paradigm and every word, build_stem
\* never fails: it drops len(prefix) letters from the left and len(suffix)
\* letters from the right by length alone, whether or not the word carries
\* that prefix and suffix, returning the word beyond the prefix when the
\* suffix is empty and the empty string when the word is shorter than
\* len(prefix) + len(suffix).
C10_StripsByLength ==
  (ret.call = "build_stem") =>
     LET slot == build_paradigm_info(ret.para_id)[ret.idx + 1]
         lp == Len(slot.prefix)
         ls == Len(slot.suffix)
         n == Len(ret.w)
     IN  /\ ret.raised = ""
         /\ Len(ret.stem) = (IF n >= lp + ls THEN n - lp - ls ELSE 0)
         /\ \A k \in 1 .. Len(ret.stem) : ret.stem[k] = ret.w[lp + k]

\* build_stem was given a word that does not carry the slot's prefix and
\* suffix and returned a non-empty string.
C10_Witness ==
  /\ ret.call = "build_stem" /\ ret.stem # <<>>
  /\ LET slot == build_paradigm_info(ret.para_id)[ret.idx + 1]
     IN  /\ slot.prefix # <<>>
         /\ SubSeq(ret.w, 1, Len(slot.prefix)) # slot.prefix

====
